---- MODULE Spec2Model ----
(***************************************************************************)
(* Log retention and compaction engine of init-claude-env                  *)
(* (src/install.py: the logging library's cleanup_logs and                 *)
(* compact_old_sessions, and the standalone cleanup-logs tool's cleanup    *)
(* and compact).                                                           *)
(*                                                                         *)
(* A store is a root directory holding date directories, each holding      *)
(* session files.  A pass (retention or compaction) runs to completion    *)
(* when invoked; `last' records the pass that ran last: its                *)
(* arguments, the store it found, what it marked and what it returned.     *)
(***************************************************************************)
EXTENDS Integers, Sequences, FiniteSets, TLC

(***************************************************************************)
(* Bounds of the model.                                                    *)
(***************************************************************************)
\* today's UTC date, as a day number of the model's calendar
Today == 10
\* most session files in a store drawn for the retention passes
MaxFiles == 2
\* most lines in a session file
MaxLines == 2
\* max_size_bytes is drawn from -1..MaxSizeLimit
MaxSizeLimit == 4
\* max_files is drawn from -2..MaxFileLimit
MaxFileLimit == 2

\* the loggers constructed and the calls of log() made in a behaviour
MaxLoggers == 2

MaxCalls == 3

(***************************************************************************)
(* Directory names and dates.  A name is a string, modelled as a sequence  *)
(* of digits; str comparison is Python's (lexicographic).                  *)
(***************************************************************************)
Min(a, b) == IF a <= b THEN a ELSE b

Max(a, b) == IF a >= b THEN a ELSE b

\* s < t on Python strings: the first differing character decides, and a
\* proper prefix is less than the longer string
LexLess(s, t) ==
    \E i \in 1..(Min(Len(s), Len(t)) + 1) :
        /\ \A j \in 1..(i - 1) : s[j] = t[j]
        /\ \/ i = Len(s) + 1 /\ i <= Len(t)
           \/ i <= Len(s) /\ i <= Len(t) /\ s[i] < t[i]

\* strftime("%Y-%m-%d") of day number d: fixed width, zero padded, most
\* significant field first (the calendar is collapsed to the century "20"
\* followed by a two-digit day number)
DateStr(d) == <<2, 0, (d \div 10) % 10, d % 10>>

\* (now - timedelta(days=n)).strftime("%Y-%m-%d")
CutoffStr(now, n) == DateStr(now - n)

\* a directory under the root that no writer made: "201", a proper prefix of
\* the names of the days 10..19
ForeignDir == <<2, 0, 1>>

(***************************************************************************)
(* Lines of a session file.  kind: "map" a JSON mapping (a well-formed     *)
(* record, evt/lvl "" when the key is absent), "nonmap" valid JSON that is *)
(* no mapping, "invalid" not JSON, "blank" an empty line.  ws: the bytes   *)
(* of whitespace around the line's text.                                   *)
(***************************************************************************)
preserve_events ==
    {"decision.made", "escalation.raised", "handoff.initiated",
     "hook.session_start", "hook.session_end",
     "task.started", "task.completed", "context.compacted"}

preserve_levels == {"error", "fatal", "warn"}

LogLevel == {"debug", "info", "warn", "error", "fatal"}

Rec(evt, lvl) == [kind |-> "map", evt |-> evt, lvl |-> lvl, ws |-> 0]

Junk(kind) == [kind |-> kind, evt |-> "", lvl |-> "", ws |-> 0]

Padded(l) == [l EXCEPT !.ws = 1]

\* line.strip()
Strip(l) == [l EXCEPT !.ws = 0]

\* bytes of a line in the file, its newline included
LineBytes(l) == (IF l.kind = "blank" THEN 0 ELSE 1) + l.ws + 1

RECURSIVE SumBytes(_)
SumBytes(lines) ==
    IF lines = <<>> THEN 0
    ELSE LineBytes(Head(lines)) + SumBytes(Tail(lines))

\* f.stat().st_size
Size(f) == SumBytes(f.lines)

RECURSIVE TotalSize(_)
\* sum(f.stat().st_size for f in fs)
TotalSize(fs) ==
    IF fs = <<>> THEN 0 ELSE Size(Head(fs)) + TotalSize(Tail(fs))

(***************************************************************************)
(* Files.  A file is [dir, stem, mtime, lines]; its path is its directory  *)
(* and stem.  The stem is the session id followed by an optional suffix.   *)
(***************************************************************************)
\* modification times of the files of a drawn store
Mtimes == 1..2

Stem(sid, suffix) == [sid |-> sid, suffix |-> suffix]

PathOf(f) == [dir |-> f.dir, stem |-> f.stem]

\* log_file.stem.endswith("_compacted")
EndsWithCompacted(stem) == stem.suffix = "_compacted"

Range(s) == {s[i] : i \in 1..Len(s)}

Paths(fs) == {PathOf(fs[i]) : i \in 1..Len(fs)}

FileAt(fs, p) == CHOOSE f \in Range(fs) : PathOf(f) = p

\* the files of fs whose path is not in ps, in their order
Without(fs, ps) == SelectSeq(fs, LAMBDA f : PathOf(f) \notin ps)

VARIABLES
    root,     \* the store root directory exists
    dirs,     \* names of the directories under the root
    files,    \* the session files, in the order rglob("*.jsonl") yields them
    cfg,      \* the retention policy: retention_days, max_size_bytes, max_files
    today,    \* the UTC date (a day number)
    last,     \* the pass that ran last
    loggers,  \* the loggers constructed: session_id, seq, log_dir, scope
    current_session,  \* the module's _current_session (NoSession: None)
    calls,    \* the calls of AgentLogger.log made so far, in order
    running,  \* the compaction and the retention pass under way, step by step
    project,  \* the store of the project scope: root, dirs, files
    queried   \* the call of AgentLogger.query made last

vars ==
    <<root, dirs, files, cfg, today, last, loggers, current_session, calls,
      running, project, queried>>

Store == [root |-> root, dirs |-> dirs, files |-> files]

(***************************************************************************)
(* Retention: cleanup_logs (the library) and cleanup (the standalone       *)
(* tool).  fn is "cleanup_logs" or "cleanup".                              *)
(***************************************************************************)
RECURSIVE InsertByMtime(_, _)
\* f put behind every file of the sorted sequence that is not newer than it
InsertByMtime(sorted, f) ==
    IF sorted = <<>> THEN <<f>>
    ELSE IF Head(sorted).mtime <= f.mtime
         THEN <<Head(sorted)>> \o InsertByMtime(Tail(sorted), f)
         ELSE <<f>> \o sorted

\* the files in the order rglob gave them, not sorted
UnsortedFiles(fs) == fs

RECURSIVE SortedByMtime(_)
\* sorted(log_dir.rglob("*.jsonl"), key=lambda f: f.stat().st_mtime): a
\* stable sort, files of equal mtime keep the order rglob gave them
SortedByMtime(fs) ==
    IF fs = <<>> THEN <<>>
    ELSE InsertByMtime(SortedByMtime(SubSeq(fs, 1, Len(fs) - 1)), fs[Len(fs)])

\* the age stage left after the first file it marks
AgeStageOldestOnly(all, cutoff_str) ==
    LET old == SelectSeq(all, LAMBDA f : LexLess(f.dir, cutoff_str))
    IN  IF old = <<>> THEN <<>> ELSE <<Head(old)>>

\* the age stage with the comparison date_dir <= cutoff_str
AgeStageInclusive(all, cutoff_str) ==
    SelectSeq(all, LAMBDA f : LexLess(f.dir, cutoff_str) \/ f.dir = cutoff_str)

\* stage 1: the files whose date directory name is less than the cutoff
AgeStage(all, cutoff_str) ==
    SelectSeq(all, LAMBDA f : LexLess(f.dir, cutoff_str))

\* the target without the factor 0.8
AtLimit(current_size, max_size_bytes) == current_size <= max_size_bytes

\* the target with a limit of zero or less read as no limit
AtTargetUnlessDisabled(current_size, max_size_bytes) ==
    max_size_bytes <= 0 \/ 5 * current_size <= 4 * max_size_bytes

\* current_size <= max_size_bytes * 0.8
AtTarget(current_size, max_size_bytes) == 5 * current_size <= 4 * max_size_bytes

\* the loop of stage 2 leaving after the first file it marks
SizeLoopOnce(remaining, current_size, max_size_bytes) ==
    IF remaining = <<>> \/ AtTarget(current_size, max_size_bytes) THEN <<>>
    ELSE <<Head(remaining)>>

RECURSIVE SizeLoop(_, _, _)
\* the loop of stage 2: mark the oldest files until the rest is at the target
SizeLoop(remaining, current_size, max_size_bytes) ==
    IF remaining = <<>> \/ AtTarget(current_size, max_size_bytes) THEN <<>>
    ELSE <<Head(remaining)>>
         \o SizeLoop(Tail(remaining), current_size - Size(Head(remaining)),
                     max_size_bytes)

\* the total that triggers stage 2: cleanup_logs sums all the files, cleanup
\* the files that stage 1 did not mark
SizeTrigger(fn, all, remaining) ==
    IF fn = "cleanup_logs" THEN TotalSize(all) ELSE TotalSize(remaining)

\* stage 2
SizeStage(fn, all, aged, max_size_bytes) ==
    LET remaining == Without(all, Paths(aged))
    IN  IF SizeTrigger(fn, all, remaining) > max_size_bytes
        THEN SizeLoop(remaining, TotalSize(remaining), max_size_bytes)
        ELSE <<>>

\* the count target without the factor 0.8
CountTargetFull(max_files) == max_files

\* int(max_files * 0.8): the product truncated towards zero
CountTarget(max_files) ==
    IF max_files >= 0 THEN (4 * max_files) \div 5
    ELSE -((4 * (-max_files)) \div 5)

\* s[:n]
PyPrefix(s, n) ==
    IF n >= 0 THEN SubSeq(s, 1, Min(n, Len(s)))
    ELSE SubSeq(s, 1, Max(Len(s) + n, 0))

\* stage 3
CountStage(all, marked, max_files) ==
    LET remaining == Without(all, Paths(marked))
    IN  IF Len(remaining) > max_files
        THEN PyPrefix(remaining, Len(remaining) - CountTarget(max_files))
        ELSE <<>>

\* the three stages, in their order: what each marks
Marks(fn, fs, c, now) ==
    LET all    == SortedByMtime(fs)
        aged   == AgeStage(all, CutoffStr(now, c.retention_days))
        sized  == SizeStage(fn, all, aged, c.max_size_bytes)
        counted == CountStage(all, aged \o sized, c.max_files)
    IN  [age |-> aged, size |-> sized, count |-> counted]

\* files_to_delete, in the order the stages appended
ToDelete(m) == m.age \o m.size \o m.count

\* the reason string a stage gives (the numbers it formats are left out)
Reason(fn, stage) ==
    IF fn = "cleanup_logs"
    THEN CASE stage = "age"   -> "older than"
           [] stage = "size"  -> "over size limit"
           [] stage = "count" -> "over file limit"
    ELSE CASE stage = "age"   -> "older than"
           [] stage = "size"  -> "size limit"
           [] stage = "count" -> "file limit"

SeqPaths(fs) == [i \in 1..Len(fs) |-> PathOf(fs[i])]

\* reasons: the reason of each marked path
Reasons(fn, m) ==
    {[path |-> p, why |-> Reason(fn, "age")] : p \in Paths(m.age)}
    \cup {[path |-> p, why |-> Reason(fn, "size")] : p \in Paths(m.size)}
    \cup {[path |-> p, why |-> Reason(fn, "count")] : p \in Paths(m.count)}

\* the deletion loop not guarded by dry_run
UnlinkedAlways(to_delete, fails, dry_run) == Paths(to_delete) \ fails

\* the deletion loop left at the first unlink that raises
UnlinkedUntilFailure(to_delete, fails, dry_run) ==
    LET bad   == {i \in 1..Len(to_delete) : PathOf(to_delete[i]) \in fails}
        first == IF bad = {} THEN Len(to_delete) + 1
                 ELSE CHOOSE i \in bad : \A j \in bad : i <= j
    IN  IF dry_run THEN {} ELSE Paths(SubSeq(to_delete, 1, first - 1))

\* the paths f.unlink() removes: none on a dry run, and not those whose
\* unlink raises OSError
Unlinked(to_delete, fails, dry_run) ==
    IF dry_run THEN {} ELSE Paths(to_delete) \ fails

\* the directories left by the sweep of the empty ones (no sweep on a dry run)
SweptDirs(ds, fs, dry_run) ==
    IF dry_run THEN ds
    ELSE {d \in ds : \E i \in 1..Len(fs) : fs[i].dir = d}

\* round(x / 1024, 1), in tenths: x * 10 / 1024 rounded half to even
RoundKbTenths(x) ==
    LET a == IF x >= 0 THEN x ELSE -x
        q == (a * 10) \div 1024
        r == (a * 10) % 1024
        n == IF 2 * r > 1024 \/ (2 * r = 1024 /\ q % 2 = 1) THEN q + 1 ELSE q
    IN  IF x >= 0 THEN n ELSE -n

\* the return value built from the marks of the first two stages
RetentionReturnStale(fn, m, removed, dry_run) ==
    LET listed == m.age \o m.size
    IN  [count   |-> IF fn = "cleanup_logs" /\ ~dry_run
                     THEN Cardinality(removed) ELSE Len(listed),
         bytes   |-> IF fn = "cleanup_logs" THEN TotalSize(listed)
                     ELSE RoundKbTenths(TotalSize(listed)),
         files   |-> IF dry_run THEN SeqPaths(listed) ELSE <<>>,
         reasons |-> IF dry_run THEN Reasons(fn, m) ELSE {}]

\* what the pass returns.  cleanup_logs: deleted_files, freed_bytes, files,
\* reasons; cleanup: deleted, freed_kb (in tenths of a KB), files with reasons
RetentionReturn(fn, m, removed, dry_run) ==
    LET to_delete == ToDelete(m)
        freed     == TotalSize(to_delete)
    IN  [count   |-> IF fn = "cleanup_logs" /\ ~dry_run
                     THEN Cardinality(removed) ELSE Len(to_delete),
         bytes   |-> IF fn = "cleanup_logs" THEN freed ELSE RoundKbTenths(freed),
         files   |-> IF dry_run THEN SeqPaths(to_delete) ELSE <<>>,
         reasons |-> IF dry_run THEN Reasons(fn, m) ELSE {}]

NoReturn == [count |-> 0, bytes |-> 0, files |-> <<>>, reasons |-> {}]

NoMarks == [age |-> <<>>, size |-> <<>>, count |-> <<>>]

\* one retention pass over store st, the unlink of the paths in fails raising
\* OSError: the store it leaves, what it marked and what it returns
RetentionPass(fn, st, c, now, dry_run, fails) ==
    IF ~st.root
    THEN [store |-> st, marks |-> NoMarks, ret |-> NoReturn]
    ELSE LET m       == Marks(fn, st.files, c, now)
             removed == Unlinked(ToDelete(m), fails, dry_run)
             kept    == Without(st.files, removed)
         IN  [store |-> [root  |-> TRUE,
                         dirs  |-> SweptDirs(st.dirs, kept, dry_run),
                         files |-> kept],
              marks |-> [age   |-> SeqPaths(m.age),
                         size  |-> SeqPaths(m.size),
                         count |-> SeqPaths(m.count)],
              ret   |-> RetentionReturn(fn, m, removed, dry_run)]

(***************************************************************************)
(* Compaction: compact_old_sessions (the library) and compact (the         *)
(* standalone tool).  fn is "compact_old_sessions" or "compact".           *)
(***************************************************************************)
\* evt in preserve_events or lvl in ("error", "fatal", "warn")
Preserved(l) == l.evt \in preserve_events \/ l.lvl \in preserve_levels

\* the line is skipped before json.loads: it is empty once stripped
SkippedBlank(l) == l.kind = "blank"

\* json.loads(line) raises JSONDecodeError, which is caught: the line is
\* dropped
DroppedInvalid(l) == l.kind = "invalid"

\* json.loads(line) returns a value without .get: entry.get raises
\* AttributeError, which nothing catches
RaisesOnLine(l) == l.kind = "nonmap"

\* the line as it is kept: compact_old_sessions keeps the stripped line,
\* compact the line as read
KeptLine(fn, l) == IF fn = "compact_old_sessions" THEN Strip(l) ELSE l

\* preserved_lines / kept of one file, when no line raises
PreservedLines(fn, lines) ==
    LET keep == SelectSeq(lines, LAMBDA l : ~SkippedBlank(l) /\ ~DroppedInvalid(l)
                                            /\ Preserved(l))
    IN  [i \in 1..Len(keep) |-> KeptLine(fn, keep[i])]

\* the read loop of one file ends in an uncaught exception
FileRaises(lines) == \E i \in 1..Len(lines) : RaisesOnLine(lines[i])

\* eligibility by the date directory alone
EligibleByDate(f, cutoff_str) == LexLess(f.dir, cutoff_str)

\* the loop takes the file: it is older than the cutoff and its stem does not
\* end in the marker
Eligible(f, cutoff_str) ==
    LexLess(f.dir, cutoff_str) /\ ~EndsWithCompacted(f.stem)

\* the time a pass writes at: later than every mtime of the drawn store
WriteTime == Cardinality(Mtimes) + 1

\* the file rewritten with the preserved lines
Rewritten(f, kept) == [f EXCEPT !.lines = kept, !.mtime = WriteTime]

\* the rewrite happens: not on a dry run, and not with nothing preserved
Rewrites(kept, dry_run) == ~dry_run /\ kept # <<>>

RECURSIVE CompactLoop(_, _, _, _, _)
\* the loop over rglob("*.jsonl") from file i on; acc is the state of the
\* pass: the files, compacted, saved bytes, and whether it raised
CompactLoop(fn, cutoff_str, dry_run, i, acc) ==
    IF i > Len(acc.files) THEN acc
    ELSE LET f == acc.files[i]
         IN  IF ~Eligible(f, cutoff_str)
             THEN CompactLoop(fn, cutoff_str, dry_run, i + 1, acc)
             ELSE IF FileRaises(f.lines)
             THEN [acc EXCEPT !.raised = TRUE]
             ELSE LET kept == PreservedLines(fn, f.lines)
                  IN  IF Rewrites(kept, dry_run)
                      THEN CompactLoop(fn, cutoff_str, dry_run, i + 1,
                               [acc EXCEPT
                                  !.files[i] = Rewritten(f, kept),
                                  !.saved = @ + (Size(f) - SumBytes(kept)),
                                  !.compacted = @ + 1])
                      ELSE CompactLoop(fn, cutoff_str, dry_run, i + 1, acc)

\* what the pass returns.  compact_old_sessions: compacted_files,
\* saved_bytes; compact: compacted, saved_kb (in tenths of a KB)
CompactionReturn(fn, acc) ==
    [count   |-> acc.compacted,
     bytes   |-> IF fn = "compact_old_sessions" THEN acc.saved
                 ELSE RoundKbTenths(acc.saved),
     files   |-> <<>>,
     reasons |-> {}]

\* one compaction pass over store st: the store it leaves, whether it raised
\* and, if it did not, what it returns
CompactionPass(fn, st, now, days_threshold, dry_run) ==
    IF ~st.root
    THEN [store |-> st, raised |-> FALSE, ret |-> NoReturn]
    ELSE LET acc == CompactLoop(fn, CutoffStr(now, days_threshold), dry_run, 1,
                        [files |-> st.files, compacted |-> 0, saved |-> 0,
                         raised |-> FALSE])
         IN  [store  |-> [st EXCEPT !.files = acc.files],
              raised |-> acc.raised,
              ret    |-> IF acc.raised THEN NoReturn
                         ELSE CompactionReturn(fn, acc)]

(***************************************************************************)
(* The stores and policies the passes are run on.                          *)
(***************************************************************************)
Debug == Rec("hook.pre_tool", "debug")

Decision == Rec("decision.made", "info")

Warning == Rec("hook.post_tool", "warn")

LineSamples ==
    {Decision, Debug, Warning, Padded(Decision),
     Junk("invalid"), Junk("nonmap"), Junk("blank")}

\* well-formed records: every event type (and "", the key absent) at a level
\* that preserves nothing, and every level (and "") with an event type that
\* preserves nothing
AllRecords ==
    {Rec(e, "info") : e \in preserve_events \cup {"hook.pre_tool", ""}}
    \cup {Rec("hook.pre_tool", l) : l \in LogLevel \cup {""}}

SeqsUpTo(S, n) == UNION {[1..k -> S] : k \in 0..n}

\* the date directories of the last days
DateDirs(now) == {DateStr(now - 2), DateStr(now - 1), DateStr(now)}

\* stores for the retention passes: up to MaxFiles files of 1..MaxLines debug
\* records, dated yesterday or today (the first one possibly in the foreign
\* directory), with any modification times
RetentionFiles(now) ==
    UNION {
      {fs \in [1..n -> [dir   : {DateStr(now - 1), DateStr(now), ForeignDir},
                        stem  : {Stem(k, "") : k \in 1..n},
                        mtime : Mtimes,
                        lines : {[j \in 1..k |-> Debug] : k \in 1..MaxLines}]] :
          \A i \in 1..n : /\ fs[i].stem.sid = i
                          /\ fs[i].dir = ForeignDir => i = 1}
      : n \in 0..MaxFiles}

\* stores for the compaction passes: one file of any content, dated two days
\* or one day ago, alone or with a second file: an old one, an old one that
\* makes the pass raise (before or behind the first), an old one whose stem
\* carries the marker, or one of today
CompactionFiles(now) ==
    LET first == [dir   : {DateStr(now - 2), DateStr(now - 1)},
                  stem  : {Stem(1, "")},
                  mtime : {1},
                  lines : SeqsUpTo(LineSamples, MaxLines)
                          \cup {<<r>> : r \in AllRecords}]
        Second(dir, suffix, lines) ==
            [dir |-> dir, stem |-> Stem(2, suffix), mtime |-> 2, lines |-> lines]
        old    == Second(DateStr(now - 2), "", <<Decision, Debug>>)
        bad    == Second(DateStr(now - 2), "", <<Junk("nonmap")>>)
        marked == Second(DateStr(now - 2), "_compacted", <<Decision, Debug>>)
        recent == Second(DateStr(now), "", <<Decision, Debug>>)
    IN  {<<f>> : f \in first}
        \cup {<<f, g>> : f \in first, g \in {old, bad, marked, recent}}
        \cup {<<bad, f>> : f \in first}

\* stores for the passes under extreme policies: up to MaxFiles files, empty
\* or of one debug record, dated yesterday or today, alone or followed by an
\* empty file of today written last
ExtremeFiles(now) ==
    LET some == UNION {
          {fs \in [1..n -> [dir   : {DateStr(now - 1), DateStr(now)},
                            stem  : {Stem(k, "") : k \in 1..n},
                            mtime : Mtimes,
                            lines : {<<>>, <<Debug>>}]] :
              \A i \in 1..n : fs[i].stem.sid = i}
          : n \in 0..MaxFiles}
        empty(n) == [dir |-> DateStr(now), stem |-> Stem(n, ""),
                     mtime |-> Cardinality(Mtimes), lines |-> <<>>]
    IN  some \cup {Append(fs, empty(Len(fs) + 1)) : fs \in some}

\* policies with limits of zero and less, next to ordinary ones
ExtremePolicies ==
    [retention_days : {-1, 0, 1},
     max_size_bytes : {-1, 0, MaxSizeLimit},
     max_files      : {-2, 0, MaxFileLimit}]

Policies ==
    [retention_days : 0..1,
     max_size_bytes : -1..MaxSizeLimit,
     max_files      : -2..MaxFileLimit]

\* the policy of the stores drawn for the compaction passes: two files
\* exceed its limits
TightPolicy == [retention_days |-> 1, max_size_bytes |-> 2, max_files |-> 1]

\* days_threshold of a compaction pass
CompactDays == {0, 1}

\* _current_session = None
NoSession == 0

\* no store of the project scope, and no query made
NoProject == [root |-> FALSE, dirs |-> {}, files |-> <<>>]

NoQuery ==
    [logger |-> 0, explicit |-> FALSE, scope |-> "", target |-> <<>>,
     existed |-> FALSE, tool |-> "", outcome |-> "none", entries |-> <<>>]

\* no pass under way
IdleCompaction ==
    [phase |-> "idle", fn |-> "", dry_run |-> FALSE, cutoff_str |-> <<>>,
     todo |-> <<>>, kept |-> <<>>]

IdleRetention == [phase |-> "idle", fn |-> "", todo |-> <<>>]

NoneRunning == [compaction |-> IdleCompaction, retention |-> IdleRetention]

\* no AgentLogger constructed, nothing logged
NoLoggers == loggers = <<>> /\ current_session = NoSession /\ calls = <<>>

NoPass(st) ==
    [op |-> "none", dry |-> FALSE, days |-> 0, pre |-> st, marks |-> NoMarks,
     failed |-> {}, raised |-> FALSE, ret |-> NoReturn]

DirsOf(fs) == {fs[i].dir : i \in 1..Len(fs)}

\* the store of a family: the root exists, with the directories of the files
\* and today's, made by a writer constructed today
InitStore(family) ==
    /\ today = Today
    /\ root = TRUE
    /\ files \in family
    /\ dirs = DirsOf(files) \cup {DateStr(Today)}
    /\ last = NoPass([root |-> TRUE, dirs |-> dirs, files |-> files])
    /\ NoLoggers
    /\ running = NoneRunning
    /\ project = NoProject
    /\ queried = NoQuery

\* no store yet: the root does not exist
InitNoStore ==
    /\ today = Today
    /\ root = FALSE
    /\ dirs = {}
    /\ files = <<>>
    /\ last = NoPass([root |-> FALSE, dirs |-> {}, files |-> <<>>])
    /\ NoLoggers
    /\ running = NoneRunning
    /\ project = NoProject
    /\ queried = NoQuery

Init ==
    \/ InitNoStore /\ cfg = TightPolicy
    \/ InitStore(CompactionFiles(Today)) /\ cfg = TightPolicy

InitRetention ==
    \/ InitNoStore /\ cfg \in Policies
    \/ InitStore(RetentionFiles(Today)) /\ cfg \in Policies

InitExtreme ==
    InitStore(ExtremeFiles(Today)) /\ cfg \in ExtremePolicies

(***************************************************************************)
(* The passes.                                                             *)
(***************************************************************************)
Retention(fn, dry_run) ==
    \E fails \in SUBSET Paths(ToDelete(Marks(fn, files, cfg, today))) :
        /\ dry_run \/ ~root => fails = {}
        /\ LET r == RetentionPass(fn, Store, cfg, today, dry_run, fails)
           IN  /\ dirs' = r.store.dirs
               /\ files' = r.store.files
               /\ last' = [op |-> fn, dry |-> dry_run,
                           days |-> cfg.retention_days, pre |-> Store,
                           marks |-> r.marks, failed |-> fails,
                           raised |-> FALSE, ret |-> r.ret]
        /\ UNCHANGED <<root, cfg, today, loggers, current_session, calls,
                       running, project, queried>>

Compaction(fn, days_threshold, dry_run) ==
    LET r == CompactionPass(fn, Store, today, days_threshold, dry_run)
    IN  /\ files' = r.store.files
        /\ last' = [op |-> fn, dry |-> dry_run, days |-> days_threshold,
                    pre |-> Store, marks |-> NoMarks, failed |-> {},
                    raised |-> r.raised, ret |-> r.ret]
        /\ UNCHANGED <<root, dirs, cfg, today, loggers, current_session,
                       calls, running, project, queried>>

\* cleanup_logs(log_dir, retention_days, max_size_mb, max_files, dry_run)
CleanupLogs(dry_run) == Retention("cleanup_logs", dry_run)

\* cleanup(log_dir, retention_days, max_size_mb, max_files, dry_run)
Cleanup(dry_run) == Retention("cleanup", dry_run)

\* compact_old_sessions(log_dir, days_threshold, dry_run)
CompactOldSessions(days_threshold, dry_run) ==
    Compaction("compact_old_sessions", days_threshold, dry_run)

\* compact(log_dir, days_threshold, dry_run)
Compact(days_threshold, dry_run) == Compaction("compact", days_threshold, dry_run)

Next ==
    \E dry_run \in BOOLEAN :
        \/ CleanupLogs(dry_run)
        \/ Cleanup(dry_run)
        \/ \E d \in CompactDays : CompactOldSessions(d, dry_run)
        \/ \E d \in CompactDays : Compact(d, dry_run)

Spec == Init /\ [][Next]_vars

NextRetention == \E dry_run \in BOOLEAN : CleanupLogs(dry_run) \/ Cleanup(dry_run)

SpecRetention == InitRetention /\ [][NextRetention]_vars

(***************************************************************************)
(* Properties.                                                             *)
(***************************************************************************)
(***************************************************************************)
(* The writer: AgentLogger.  A correlation id is a record: none for None,  *)
(* sid and digits for the text corr_<sid>_<digits>; a caller's own text    *)
(* that is not of that shape has sid NoSession.                            *)
(***************************************************************************)
MsgLimit == 100

MsgKept == 97

\* the marker appended to the first 100 characters
TruncateAfterLimit(msg) ==
    IF Len(msg) > MsgLimit THEN SubSeq(msg, 1, MsgLimit) \o <<".", ".", ".">>
    ELSE msg

\* msg[:97] + "..." for a message of more than 100 characters
Truncate(msg) ==
    IF Len(msg) > MsgLimit THEN SubSeq(msg, 1, MsgKept) \o <<".", ".", ".">>
    ELSE msg

RECURSIVE Digits(_)
\* the decimal digits of a natural number
Digits(n) == IF n < 10 THEN <<n>> ELSE Append(Digits(n \div 10), n % 10)

RECURSIVE ZeroPad(_, _)
ZeroPad(ds, width) == IF Len(ds) >= width THEN ds ELSE ZeroPad(<<0>> \o ds, width)

\* f"{seq:03d}"
FormatSeq(seq) == ZeroPad(Digits(seq), 3)

\* f"corr_{self.session_id}_{self._seq:03d}"
CorrelationId(session_id, seq) ==
    [none |-> FALSE, sid |-> session_id, digits |-> FormatSeq(seq)]

NoneCid == [none |-> TRUE, sid |-> NoSession, digits |-> <<>>]

EmptyCid == [none |-> FALSE, sid |-> NoSession, digits |-> <<>>]

\* the truth value of cid in "cid or self._next_correlation_id()"
Truthy(cid) == ~cid.none /\ cid.digits # <<>>

\* the session file of a logger: self._log_dir / f"{self.session_id}.jsonl"
LogFile(lg) == [dir |-> lg.log_dir, stem |-> Stem(lg.session_id, "")]

\* the entry written by log(): the fields compaction reads, the correlation
\* id and the message; auto tells whether the id was generated by the logger
Entry(lvl, evt, cid, msg, auto) ==
    [kind |-> "map", evt |-> evt, lvl |-> lvl, ws |-> 0,
     cid |-> cid, msg |-> msg, auto |-> auto]

\* the file opened with mode "w": the line replaces what the file held
AppendedOver(fs, path, line) ==
    IF path \in Paths(fs)
    THEN [i \in 1..Len(fs) |->
             IF PathOf(fs[i]) = path
             THEN [fs[i] EXCEPT !.lines = <<line>>, !.mtime = WriteTime]
             ELSE fs[i]]
    ELSE Append(fs, [dir |-> path.dir, stem |-> path.stem,
                     mtime |-> WriteTime, lines |-> <<line>>])

\* open(self._log_file, "a") and one write: the line is appended to the file,
\* which is created when it does not exist
Appended(fs, path, line) ==
    IF path \in Paths(fs)
    THEN [i \in 1..Len(fs) |->
             IF PathOf(fs[i]) = path
             THEN [fs[i] EXCEPT !.lines = Append(@, line), !.mtime = WriteTime]
             ELSE fs[i]]
    ELSE Append(fs, [dir |-> path.dir, stem |-> path.stem,
                     mtime |-> WriteTime, lines |-> <<line>>])

\* a logger that draws a sequence number for every call
NextSeqAlways(seq, cid) == seq + 1

\* self._seq after the id of a call is settled: _next_correlation_id() runs
\* only when the caller's cid is None or empty
NextSeq(seq, cid) == IF Truthy(cid) THEN seq ELSE seq + 1

Sessions == 1..2

\* a message of n characters: "b" and "c" at the places 97 and 98, "." from
\* the place 101 on, "a" elsewhere
Msg(n) ==
    [i \in 1..n |-> IF i = MsgKept THEN "b"
                    ELSE IF i = MsgKept + 1 THEN "c"
                    ELSE IF i > MsgLimit THEN "." ELSE "a"]

Msgs == {Msg(n) : n \in {0, MsgKept, MsgLimit, MsgLimit + 1, MsgLimit + 4}}

\* the ids a caller passes: none, the empty text, a text of its own, and an
\* id some logger returned
Cids == {NoneCid, EmptyCid,
         [none |-> FALSE, sid |-> NoSession, digits |-> <<7>>],
         CorrelationId(1, 1)}

\* the arguments of log(): records of any id with a short message, and
\* decisions of any message with a generated id
LogInputs ==
    [lvl : {"debug"}, evt : {"hook.pre_tool"}, msg : {Msg(3)}, cid : Cids]
    \cup [lvl : {"info"}, evt : {"decision.made"}, msg : Msgs, cid : {NoneCid}]

InitWriter ==
    /\ today = Today
    /\ root = FALSE
    /\ dirs = {}
    /\ files = <<>>
    /\ cfg = TightPolicy
    /\ last = NoPass([root |-> FALSE, dirs |-> {}, files |-> <<>>])
    /\ NoLoggers
    /\ running = NoneRunning
    /\ project = NoProject
    /\ queried = NoQuery

\* AgentLogger(session_id): session_id NoSession stands for None, and then
\* the session is the current one, or a generated one when there is none
AgentLoggerInit(session_id) ==
    /\ Len(loggers) < MaxLoggers
    /\ \E generated \in Sessions :
          LET sid == IF session_id # NoSession THEN session_id
                     ELSE IF current_session # NoSession THEN current_session
                     ELSE generated
          IN  /\ loggers' = Append(loggers, [session_id |-> sid, seq |-> 0,
                                             log_dir |-> DateStr(today),
                                             scope |-> "global"])
              /\ current_session' = sid
    /\ root' = TRUE
    /\ dirs' = dirs \cup {DateStr(today)}
    /\ UNCHANGED <<files, cfg, today, last, calls, running, project, queried>>

\* ProjectLogger(session_id) in a project context: the same construction,
\* with the directory of the day under the project root
ProjectLoggerInit(session_id) ==
    /\ Len(loggers) < MaxLoggers
    /\ \E generated \in Sessions :
          LET sid == IF session_id # NoSession THEN session_id
                     ELSE IF current_session # NoSession THEN current_session
                     ELSE generated
          IN  /\ loggers' = Append(loggers, [session_id |-> sid, seq |-> 0,
                                             log_dir |-> DateStr(today),
                                             scope |-> "project"])
              /\ current_session' = sid
    /\ project' = [project EXCEPT !.root = TRUE,
                                  !.dirs = @ \cup {DateStr(today)}]
    /\ UNCHANGED <<root, dirs, files, cfg, today, last, calls, running,
                   queried>>

\* the store under the log directory of a logger
StoreOf(lg) == IF lg.scope = "project" THEN project ELSE Store

\* logger.log(lvl, evt, msg, cid=cid) by the w-th logger
Log(w, in) ==
    /\ Len(calls) < MaxCalls
    /\ LET lg     == loggers[w]
           auto   == ~Truthy(in.cid)
           seq    == NextSeq(lg.seq, in.cid)
           correlation_id ==
               IF auto THEN CorrelationId(lg.session_id, seq) ELSE in.cid
           entry  == Entry(in.lvl, in.evt, correlation_id, Truncate(in.msg), auto)
           opened == lg.log_dir \in StoreOf(lg).dirs
           written == IF opened
                      THEN Appended(StoreOf(lg).files, LogFile(lg), entry)
                      ELSE StoreOf(lg).files
       IN  /\ loggers' = [loggers EXCEPT ![w].seq = seq]
           /\ files' = IF lg.scope = "project" THEN files ELSE written
           /\ project' = IF lg.scope = "project"
                         THEN [project EXCEPT !.files = written]
                         ELSE project
           /\ calls' = Append(calls, [logger |-> w, cid |-> in.cid,
                                      msg |-> in.msg, entry |-> entry,
                                      raised |-> ~opened,
                                      returned |-> correlation_id])
    /\ UNCHANGED <<root, dirs, cfg, today, last, current_session, running,
                   queried>>

\* the UTC date changes
Midnight ==
    /\ today = Today
    /\ today' = today + 1
    /\ UNCHANGED <<root, dirs, files, cfg, last, loggers, current_session,
                   calls, running, project, queried>>

NextWriter ==
    \/ \E session_id \in Sessions \cup {NoSession} : AgentLoggerInit(session_id)
    \/ \E w \in 1..Len(loggers), in \in LogInputs : Log(w, in)
    \/ Midnight

SpecWriter == InitWriter /\ [][NextWriter]_vars

(***************************************************************************)
(* The passes step by step, beside a logger of another process.  A         *)
(* compaction visits the files rglob listed; reading a file and rewriting  *)
(* it are two steps.  A retention marks its candidates in one step and     *)
(* unlinks them one by one, then sweeps the empty directories.             *)
(***************************************************************************)
\* open(log_file, "w") and one write: the file holds the kept lines, and is
\* created when it does not exist
Written(fs, path, kept) ==
    IF path \in Paths(fs)
    THEN [i \in 1..Len(fs) |->
             IF PathOf(fs[i]) = path THEN Rewritten(fs[i], kept) ELSE fs[i]]
    ELSE Append(fs, [dir |-> path.dir, stem |-> path.stem,
                     mtime |-> WriteTime, lines |-> kept])

\* a logger constructed two days ago has written a decision and a debug
\* record to its session file, which may have a neighbour in its directory
RaceStores ==
    LET dir   == DateStr(Today - 2)
        mine  == [dir |-> dir, stem |-> Stem(1, ""), mtime |-> 1,
                  lines |-> <<Entry("info", "decision.made",
                                    CorrelationId(1, 1), Msg(3), TRUE),
                              Entry("debug", "hook.pre_tool",
                                    CorrelationId(1, 2), Msg(3), TRUE)>>]
        other == [dir |-> dir, stem |-> Stem(2, ""), mtime |-> 2,
                  lines |-> <<Entry("debug", "hook.pre_tool",
                                    CorrelationId(2, 1), Msg(3), TRUE)>>]
    IN  {<<mine>>, <<mine, other>>, <<other, mine>>}

InitRace ==
    /\ today = Today
    /\ root = TRUE
    /\ files \in RaceStores
    /\ dirs = DirsOf(files)
    /\ cfg \in {TightPolicy, [TightPolicy EXCEPT !.max_files = MaxFileLimit]}
    /\ last = NoPass([root |-> TRUE, dirs |-> dirs, files |-> files])
    /\ loggers = <<[session_id |-> 1, seq |-> 2,
                    log_dir |-> DateStr(Today - 2), scope |-> "global"]>>
    /\ current_session = 1
    /\ calls = <<>>
    /\ running = NoneRunning
    /\ project = NoProject
    /\ queried = NoQuery

RaceInputs ==
    [lvl : {"debug"}, evt : {"hook.pre_tool"}, msg : {Msg(3)}, cid : {NoneCid}]

\* the pass starts: cutoff_str, and the files rglob finds
CompactStart(fn, days_threshold, dry_run) ==
    /\ running.compaction.phase = "idle"
    /\ root
    /\ running' = [running EXCEPT !.compaction =
                      [phase |-> "loop", fn |-> fn, dry_run |-> dry_run,
                       cutoff_str |-> CutoffStr(today, days_threshold),
                       todo |-> SeqPaths(files), kept |-> <<>>]]
    /\ UNCHANGED <<root, dirs, files, cfg, today, last, loggers,
                   current_session, calls, project, queried>>

\* one turn of the loop up to the end of the read: the file is skipped, or
\* stat() or the parse raises and ends the pass, or the lines to keep are
\* collected and the rewrite is next
CompactRead ==
    LET c    == running.compaction
        path == Head(c.todo)
        skip == [c EXCEPT !.todo = Tail(c.todo), !.kept = <<>>]
    IN  /\ c.phase = "loop"
        /\ c.todo # <<>>
        /\ running' = [running EXCEPT !.compaction =
              IF ~Eligible(path, c.cutoff_str) THEN skip
              ELSE IF path \notin Paths(files) THEN IdleCompaction
              ELSE IF FileRaises(FileAt(files, path).lines) THEN IdleCompaction
              ELSE LET kept == PreservedLines(c.fn, FileAt(files, path).lines)
                   IN  IF Rewrites(kept, c.dry_run)
                       THEN [c EXCEPT !.phase = "write", !.kept = kept]
                       ELSE skip]
        /\ UNCHANGED <<root, dirs, files, cfg, today, last, loggers,
                       current_session, calls, project, queried>>

\* the rewrite of the file that was read; OSError, raised when its directory
\* is gone, is caught and the loop goes on
CompactWrite ==
    LET c    == running.compaction
        path == Head(c.todo)
    IN  /\ c.phase = "write"
        /\ files' = IF path.dir \in dirs THEN Written(files, path, c.kept)
                    ELSE files
        /\ running' = [running EXCEPT !.compaction =
                          [c EXCEPT !.phase = "loop", !.todo = Tail(c.todo),
                                    !.kept = <<>>]]
        /\ UNCHANGED <<root, dirs, cfg, today, last, loggers,
                       current_session, calls, project, queried>>

\* the loop is over and the pass returns
CompactReturn ==
    /\ running.compaction.phase = "loop"
    /\ running.compaction.todo = <<>>
    /\ running' = [running EXCEPT !.compaction = IdleCompaction]
    /\ UNCHANGED <<root, dirs, files, cfg, today, last, loggers,
                   current_session, calls, project, queried>>

\* a non-dry-run retention starts: the three stages mark their files
RetentionStart(fn) ==
    /\ running.retention.phase = "idle"
    /\ root
    /\ running' = [running EXCEPT !.retention =
                      [phase |-> "unlink", fn |-> fn,
                       todo |-> SeqPaths(ToDelete(Marks(fn, files, cfg, today)))]]
    /\ UNCHANGED <<root, dirs, files, cfg, today, last, loggers,
                   current_session, calls, project, queried>>

\* f.unlink() of the next candidate; OSError is passed over
RetentionUnlink ==
    LET r == running.retention
    IN  /\ r.phase = "unlink"
        /\ r.todo # <<>>
        /\ \E fails \in BOOLEAN :
              files' = IF fails THEN files ELSE Without(files, {Head(r.todo)})
        /\ running' = [running EXCEPT !.retention.todo = Tail(r.todo)]
        /\ UNCHANGED <<root, dirs, cfg, today, last, loggers,
                       current_session, calls, project, queried>>

\* the sweep of the empty directories, and the pass returns
RetentionSweep ==
    /\ running.retention.phase = "unlink"
    /\ running.retention.todo = <<>>
    /\ dirs' = SweptDirs(dirs, files, FALSE)
    /\ running' = [running EXCEPT !.retention = IdleRetention]
    /\ UNCHANGED <<root, files, cfg, today, last, loggers, current_session,
                   calls, project, queried>>

NextRace ==
    \/ \E fn \in {"compact_old_sessions", "compact"}, dry_run \in BOOLEAN :
          CompactStart(fn, 1, dry_run)
    \/ CompactRead
    \/ CompactWrite
    \/ CompactReturn
    \/ \E fn \in {"cleanup_logs", "cleanup"} : RetentionStart(fn)
    \/ RetentionUnlink
    \/ RetentionSweep
    \/ \E in \in RaceInputs : Log(1, in)

SpecRace == InitRace /\ [][NextRace]_vars

\* a decision record, which compaction preserves
AuditInputs ==
    [lvl : {"info"}, evt : {"decision.made"}, msg : {Msg(3)}, cid : {NoneCid}]

\* the logger beside a compaction pass, without any retention
NextAudit ==
    \/ \E fn \in {"compact_old_sessions", "compact"}, dry_run \in BOOLEAN :
          CompactStart(fn, 1, dry_run)
    \/ CompactRead
    \/ CompactWrite
    \/ CompactReturn
    \/ \E in \in AuditInputs : Log(1, in)

SpecAudit == InitRace /\ [][NextAudit]_vars

\* loggers of one process and the retention passes of another
NextLive ==
    \/ \E session_id \in Sessions \cup {NoSession} : AgentLoggerInit(session_id)
    \/ \E w \in 1..Len(loggers), in \in RaceInputs \cup AuditInputs : Log(w, in)
    \/ \E dry_run \in BOOLEAN : CleanupLogs(dry_run)
    \/ \E dry_run \in BOOLEAN : Cleanup(dry_run)

SpecLive == InitWriter /\ [][NextLive]_vars

(***************************************************************************)
(* The store index: get_log_stats (the library) and get_stats (the         *)
(* standalone tool).  fn is "get_log_stats" or "get_stats".                *)
(***************************************************************************)
\* the prefix filter passing every name
StartsWithAnything(name) == TRUE

\* f.parent.name.startswith("20")
StartsWith20(name) == Len(name) >= 2 /\ name[1] = 2 /\ name[2] = 0

RECURSIVE SortedNames(_)
\* sorted(set(...)) of directory names
SortedNames(names) ==
    IF names = {} THEN <<>>
    ELSE LET least == CHOOSE x \in names :
                         \A y \in names : x = y \/ LexLess(x, y)
         IN  <<least>> \o SortedNames(names \ {least})

\* None as oldest_date or newest_date
NoDate == <<>>

NoStats == [files |-> 0, bytes |-> 0, oldest |-> NoDate, newest |-> NoDate,
            dates |-> <<>>]

\* what the function returns.  get_log_stats: total_files, total_size_bytes,
\* oldest_date, newest_date, dates; get_stats: files, size_kb (in tenths of
\* a KB), oldest, newest, dates
LogStats(fn, st) ==
    IF ~st.root \/ (fn = "get_stats" /\ st.files = <<>>) THEN NoStats
    ELSE LET total_size == TotalSize(st.files)
             dates == SortedNames({st.files[i].dir : i \in
                          {j \in 1..Len(st.files) : StartsWith20(st.files[j].dir)}})
         IN  [files  |-> Len(st.files),
              bytes  |-> IF fn = "get_log_stats" THEN total_size
                         ELSE RoundKbTenths(total_size),
              oldest |-> IF dates # <<>> THEN dates[1] ELSE NoDate,
              newest |-> IF dates # <<>> THEN dates[Len(dates)] ELSE NoDate,
              dates  |-> dates]

Stats(fn) ==
    /\ last' = [op |-> fn, dry |-> FALSE, days |-> 0, pre |-> Store,
                marks |-> NoMarks, failed |-> {}, raised |-> FALSE,
                ret |-> LogStats(fn, Store)]
    /\ UNCHANGED <<root, dirs, files, cfg, today, loggers, current_session,
                   calls, running, project, queried>>

\* get_log_stats(log_dir)
GetLogStats == Stats("get_log_stats")

\* get_stats(log_dir)
GetStats == Stats("get_stats")

\* a directory whose name does not look like a date
UndatedDir == <<1, 9>>

\* stores for the index: up to MaxFiles files, empty or not, in dated
\* directories, in the foreign directory whose name begins like a date, or
\* in the undated one
IndexFiles(now) ==
    UNION {
      {fs \in [1..n -> [dir   : {DateStr(now - 1), DateStr(now), ForeignDir,
                                 UndatedDir},
                        stem  : {Stem(k, "") : k \in 1..n},
                        mtime : {1},
                        lines : {<<>>, <<Debug>>, <<Decision, Debug>>}]] :
          \A i \in 1..n : fs[i].stem.sid = i}
      : n \in 0..MaxFiles}

\* a policy no store drawn here exceeds
LaxPolicy ==
    [retention_days |-> 2, max_size_bytes |-> 2 * MaxFiles * MaxLines * 2,
     max_files |-> MaxFiles]

\* no store, or a store of some files with possibly an empty directory of
\* today beside them
InitIndex ==
    \/ InitNoStore /\ cfg \in {TightPolicy, LaxPolicy}
    \/ /\ today = Today
       /\ root = TRUE
       /\ files \in IndexFiles(Today)
       /\ \E extra \in SUBSET {DateStr(Today)} : dirs = DirsOf(files) \cup extra
       /\ cfg \in {TightPolicy, LaxPolicy}
       /\ last = NoPass([root |-> TRUE, dirs |-> dirs, files |-> files])
       /\ NoLoggers
       /\ running = NoneRunning
       /\ project = NoProject
       /\ queried = NoQuery
    /\ project = NoProject
    /\ queried = NoQuery

NextIndex ==
    \/ GetLogStats
    \/ GetStats
    \/ \E dry_run \in BOOLEAN : CleanupLogs(dry_run)
    \/ \E dry_run \in BOOLEAN : Cleanup(dry_run)
    \/ \E d \in CompactDays, dry_run \in BOOLEAN : CompactOldSessions(d, dry_run)
    \/ \E d \in CompactDays, dry_run \in BOOLEAN : Compact(d, dry_run)

SpecIndex == InitIndex /\ [][NextIndex]_vars

SpecExtreme == InitExtreme /\ [][NextRetention]_vars

(***************************************************************************)
(* The query of a logger, and the two scopes: AgentLogger writes under the *)
(* home directory, ProjectLogger under the project root.  get_logger       *)
(* cleans up and constructs one of the two.                                *)
(***************************************************************************)
\* the filters a caller passes: "." and select(.evt == "decision.made")
Filters == {"all", "decisions"}

Matches(jq_filter, line) == jq_filter = "all" \/ line.evt = "decision.made"

\* the filter tool at a call: it runs, it is not installed (FileNotFoundError
\* from subprocess.run), or it exits with an error (CalledProcessError)
Tools == {"ok", "absent", "fails"}

\* log_path in query(): date is NoDate for None and then the date of the
\* call, session_id is NoSession for None and then the logger's; the path is
\* under the home directory
QueryPath(lg, session_id, date, now) ==
    [dir  |-> IF date = NoDate THEN DateStr(now) ELSE date,
     stem |-> Stem(IF session_id # NoSession THEN session_id
                   ELSE lg.session_id, "")]

\* a query that answers a failure of the tool with no entries
QueryOutcomeQuiet(existed, tool, lines, jq_filter) ==
    IF ~existed \/ tool # "ok"
    THEN [outcome |-> "returned", error |-> "", entries |-> <<>>]
    ELSE [outcome |-> "returned", error |-> "",
          entries |-> SelectSeq(lines, LAMBDA l : Matches(jq_filter, l))]

\* what query() does once log_path is known: [] when the file does not
\* exist, RuntimeError when the tool is missing or fails, else the lines
\* the filter lets through, in file order
QueryOutcome(existed, tool, lines, jq_filter) ==
    IF ~existed
    THEN [outcome |-> "returned", error |-> "", entries |-> <<>>]
    ELSE IF tool = "absent"
    THEN [outcome |-> "raised", error |-> "jq not found", entries |-> <<>>]
    ELSE IF tool = "fails"
    THEN [outcome |-> "raised", error |-> "jq query failed", entries |-> <<>>]
    ELSE [outcome |-> "returned", error |-> "",
          entries |-> SelectSeq(lines, LAMBDA l : Matches(jq_filter, l))]

\* logger.query(jq_filter, session_id=session_id, date=date) by the w-th
\* logger
Query(w, jq_filter, session_id, date, tool) ==
    LET lg       == loggers[w]
        log_path == QueryPath(lg, session_id, date, today)
        existed  == log_path \in Paths(files)
        lines    == IF existed THEN FileAt(files, log_path).lines ELSE <<>>
        r        == QueryOutcome(existed, tool, lines, jq_filter)
    IN  /\ queried' = [logger   |-> w,
                       explicit |-> session_id # NoSession \/ date # NoDate,
                       appended |-> \E i \in 1..Len(calls) :
                                       calls[i].logger = w /\ ~calls[i].raised,
                       scope    |-> "global",
                       target   |-> log_path,
                       existed  |-> existed,
                       tool     |-> tool,
                       outcome  |-> r.outcome,
                       error    |-> r.error,
                       entries  |-> r.entries]
        /\ UNCHANGED <<root, dirs, files, cfg, today, last, loggers,
                       current_session, calls, running, project>>

\* the arguments of query(): any filter without session id and date, and
\* every record of a session on the first day
QueryInputs ==
    [jq_filter : Filters, session_id : {NoSession}, date : {NoDate},
     tool : Tools]
    \cup [jq_filter : {"all"}, session_id : Sessions,
          date : {DateStr(Today)}, tool : Tools]

NextQuery ==
    \/ AgentLoggerInit(NoSession)
    \/ ProjectLoggerInit(NoSession)
    \/ \E w \in 1..Len(loggers), in \in RaceInputs \cup AuditInputs : Log(w, in)
    \/ Midnight
    \/ \E w \in 1..Len(loggers), q \in QueryInputs :
          Query(w, q.jq_filter, q.session_id, q.date, q.tool)

SpecQuery == InitWriter /\ [][NextQuery]_vars

\* get_logger(session_id, prefer_project=prefer_project,
\* auto_cleanup=auto_cleanup), in_project being is_project_context():
\* cleanup_logs(quiet=True) runs on the default log directory, the one under
\* the home directory, and then the logger of the scope is constructed
GetLogger(session_id, prefer_project, auto_cleanup, in_project) ==
    /\ Len(loggers) < MaxLoggers
    /\ \E generated \in Sessions,
          fails \in SUBSET Paths(ToDelete(Marks("cleanup_logs", files, cfg,
                                                today))) :
          /\ ~(auto_cleanup /\ root) => fails = {}
          /\ LET r     == IF auto_cleanup
                          THEN RetentionPass("cleanup_logs", Store, cfg,
                                             today, FALSE, fails)
                          ELSE [store |-> Store, marks |-> NoMarks,
                                ret |-> NoReturn]
                 scope == IF prefer_project /\ in_project THEN "project"
                          ELSE "global"
                 sid   == IF session_id # NoSession THEN session_id
                          ELSE IF current_session # NoSession
                          THEN current_session
                          ELSE generated
                 home  == IF scope = "global"
                          THEN [root  |-> TRUE,
                                dirs  |-> r.store.dirs \cup {DateStr(today)},
                                files |-> r.store.files]
                          ELSE r.store
                 proj  == IF scope = "project"
                          THEN [project EXCEPT
                                   !.root = TRUE,
                                   !.dirs = @ \cup {DateStr(today)}]
                          ELSE project
             IN  /\ loggers' = Append(loggers,
                                      [session_id |-> sid, seq |-> 0,
                                       log_dir |-> DateStr(today),
                                       scope |-> scope])
                 /\ current_session' = sid
                 /\ root' = home.root
                 /\ dirs' = home.dirs
                 /\ files' = home.files
                 /\ project' = proj
                 /\ last' = [op |-> "get_logger", dry |-> FALSE,
                             days |-> cfg.retention_days, pre |-> Store,
                             marks |-> r.marks, failed |-> fails,
                             raised |-> FALSE, ret |-> r.ret,
                             auto_cleanup |-> auto_cleanup, scope |-> scope,
                             now |-> today, post |-> home,
                             project_pre |-> project, project_post |-> proj]
    /\ UNCHANGED <<cfg, today, calls, running, queried>>

\* a store of one scope: none, or the session file of a logger of two days
\* ago, alone or with a file of today
ScopeStores ==
    LET old == [dir |-> DateStr(Today - 2), stem |-> Stem(1, ""), mtime |-> 1,
                lines |-> <<Debug>>]
        new == [dir |-> DateStr(Today), stem |-> Stem(2, ""), mtime |-> 2,
                lines |-> <<Decision>>]
    IN  {[root |-> FALSE, dirs |-> {}, files |-> <<>>]}
        \cup {[root |-> TRUE, dirs |-> DirsOf(fs), files |-> fs] :
                 fs \in {<<old>>, <<old, new>>}}

InitScope ==
    /\ today = Today
    /\ \E st \in ScopeStores : root = st.root /\ dirs = st.dirs /\ files = st.files
    /\ project \in ScopeStores
    /\ cfg \in {TightPolicy, LaxPolicy}
    /\ last = NoPass(Store)
    /\ NoLoggers
    /\ running = NoneRunning
    /\ queried = NoQuery

NextScope ==
    \/ \E session_id \in {NoSession, 1},
          prefer_project, auto_cleanup, in_project \in BOOLEAN :
          GetLogger(session_id, prefer_project, auto_cleanup, in_project)
    \/ \E w \in 1..Len(loggers), in \in RaceInputs : Log(w, in)

SpecScope == InitScope /\ [][NextScope]_vars

LastIsRetention == last.op \in {"cleanup_logs", "cleanup"}

LastIsCompaction == last.op \in {"compact_old_sessions", "compact"}

\* the pass that ran last deleted for real, and no unlink failed
DeletedAll == LastIsRetention /\ last.pre.root /\ ~last.dry /\ last.failed = {}

\* the cutoff date of the pass that ran last
LastCutoff == CutoffStr(today, last.days)

\* the files the pass found that the age stage left unmarked, and those the
\* age and size stages left unmarked
AfterAge == Without(last.pre.files, Range(last.marks.age))

AfterSize == Without(AfterAge, Range(last.marks.size))

\* the paths that were in the store before the pass and are not any more
Gone == Paths(last.pre.files) \ Paths(files)

LinesOf(fs) == [i \in 1..Len(fs) |-> fs[i].lines]

\* C1: after a non-dry-run retention pass with non-negative limits and no
\* failed deletion, no file is left in a directory whose name is less than
\* the cutoff, the bytes left are at most max_size_bytes and the files left
\* at most max_files.
C1_StoreBounded ==
    (/\ DeletedAll
     /\ cfg.retention_days >= 0
     /\ cfg.max_size_bytes >= 0
     /\ cfg.max_files >= 0)
    => /\ \A i \in 1..Len(files) : ~LexLess(files[i].dir, LastCutoff)
       /\ TotalSize(files) <= cfg.max_size_bytes
       /\ Len(files) <= cfg.max_files

\* a pass whose size stage evicted a file and left another
C1_Witness ==
    /\ DeletedAll
    /\ cfg.max_size_bytes >= 0 /\ cfg.max_files >= 0
    /\ last.marks.size # <<>>
    /\ files # <<>>

\* C2: on a store whose total size and file count are within the limits, a
\* non-dry-run retention pass removes exactly the files whose directory name
\* is less than the cutoff (a file dated at the cutoff stays), and the freed
\* bytes it reports are the sum of the sizes of the removed files
\* (cleanup reports them in tenths of a KB).
C2_ExactlyTheOld ==
    (/\ DeletedAll
     /\ TotalSize(last.pre.files) <= cfg.max_size_bytes
     /\ Len(last.pre.files) <= cfg.max_files)
    => LET old == {p \in Paths(last.pre.files) : LexLess(p.dir, LastCutoff)}
           sum == TotalSize(SelectSeq(last.pre.files,
                                      LAMBDA f : PathOf(f) \in Gone))
       IN  /\ Gone = old
           /\ Paths(files) = Paths(last.pre.files) \ old
           /\ last.op = "cleanup_logs" => last.ret.bytes = sum
           /\ last.op = "cleanup" => last.ret.bytes = RoundKbTenths(sum)

\* a file older than the cutoff was removed and one dated at the cutoff stays
C2_Witness ==
    /\ DeletedAll
    /\ TotalSize(last.pre.files) <= cfg.max_size_bytes
    /\ Len(last.pre.files) <= cfg.max_files
    /\ Gone # {}
    /\ \E i \in 1..Len(files) : files[i].dir = LastCutoff

\* C3 as stated: for any max_size_bytes, when the size stage marks a file the
\* bytes left unmarked at its end are at most 80% of max_size_bytes.
C3_HysteresisAnyLimit ==
    (LastIsRetention /\ last.marks.size # <<>>)
    => 5 * TotalSize(AfterSize) <= 4 * cfg.max_size_bytes

\* C3 amended: the same for any non-negative max_size_bytes.
C3_Hysteresis ==
    (LastIsRetention /\ last.marks.size # <<>> /\ cfg.max_size_bytes >= 0)
    => 5 * TotalSize(AfterSize) <= 4 * cfg.max_size_bytes

\* the size stage marked a file and left one
C3_Witness ==
    /\ LastIsRetention
    /\ cfg.max_size_bytes >= 0
    /\ last.marks.size # <<>>
    /\ AfterSize # <<>>

\* C4: if the bytes of the files the age stage left unmarked do not exceed
\* max_size_bytes, the size stage marks nothing.
C4_SizeStageCountsUnmarkedOnly ==
    (LastIsRetention /\ TotalSize(AfterAge) <= cfg.max_size_bytes)
    => last.marks.size = <<>>

\* floor(80% of n)
EightyPercentDown(n) == (4 * n) \div 5

C6_DryRunFrame ==
    (last.op # "none" /\ last.dry) => Store = last.pre

\* a dry run of compaction over a file the real pass would rewrite
C6_Witness ==
    /\ LastIsCompaction
    /\ last.dry
    /\ ~last.raised
    /\ \E i \in 1..Len(files) :
          /\ Eligible(files[i], LastCutoff)
          /\ PreservedLines(last.op, files[i].lines) # <<>>
          /\ PreservedLines(last.op, files[i].lines) # files[i].lines

\* the stage whose reason string a reason is
StageNamed(fn, why) ==
    CHOOSE stage \in {"age", "size", "count"} : Reason(fn, stage) = why

\* C7: the paths and the count a dry-run retention pass returns are the
\* files and the count of files that the non-dry-run pass deletes from the
\* same store under the same policy when no unlink fails, and each returned
\* path has a reason, which names the stage that marked it.
C7_DryRunReturnsTheDeleted ==
    (LastIsRetention /\ last.dry /\ last.pre.root)
    => LET real    == RetentionPass(last.op, last.pre, cfg, today, FALSE, {})
           deleted == Paths(last.pre.files) \ Paths(real.store.files)
       IN  /\ Range(last.ret.files) = deleted
           /\ Len(last.ret.files) = Cardinality(deleted)
           /\ last.ret.count = Cardinality(deleted)
           /\ last.ret.count = real.ret.count
           /\ \A p \in Range(last.ret.files) :
                 /\ Cardinality({r \in last.ret.reasons : r.path = p}) = 1
                 /\ \A r \in last.ret.reasons :
                       r.path = p
                       => p \in Range(last.marks[StageNamed(last.op, r.why)])

\* a dry run that returns files marked by two stages
C7_Witness ==
    /\ LastIsRetention
    /\ last.dry
    /\ Len(last.ret.files) >= 2
    /\ Cardinality({r.why : r \in last.ret.reasons}) >= 2

\* C8: a dry-run compaction reports the number of files and the saved bytes
\* that the non-dry-run compaction of the same store with the same threshold
\* reports.
C8_CompactionDryRunReportsTheSame ==
    (LastIsCompaction /\ last.dry /\ ~last.raised)
    => LET real == CompactionPass(last.op, last.pre, today, last.days, FALSE)
       IN  /\ last.ret.count = real.ret.count
           /\ last.ret.bytes = real.ret.bytes

\* the records the claim preserves
ClaimedPreserved(l) ==
    \/ l.evt \in {"decision.made", "escalation.raised", "handoff.initiated",
                  "hook.session_start", "hook.session_end", "task.started",
                  "task.completed", "context.compacted"}
    \/ l.lvl \in {"error", "fatal", "warn"}

\* the well-formed records of a file among its lines, without the whitespace
\* around them
Records(lines) ==
    LET wf == SelectSeq(lines, LAMBDA l : l.kind = "map")
    IN  [i \in 1..Len(wf) |-> Strip(wf[i])]

Stripped(lines) == [i \in 1..Len(lines) |-> Strip(lines[i])]

\* C9: after a non-dry-run compaction, every eligible file whose preserved
\* set is not empty holds exactly its original well-formed records that have
\* a preserved event type or level, in their order.
C9_CompactionKeepsThePreserved ==
    (LastIsCompaction /\ ~last.dry /\ last.pre.root)
    => \A i \in 1..Len(last.pre.files) :
          LET f    == last.pre.files[i]
              want == SelectSeq(Records(f.lines), ClaimedPreserved)
          IN  (Eligible(f, LastCutoff) /\ want # <<>>)
              => Stripped(files[i].lines) = want

\* C10: a second non-dry-run compaction by the same function, with the same
\* or an older threshold, leaves the lines of every file as the first left
\* them and, when it returns, reports no saved bytes.
C10_CompactionIdempotent ==
    (LastIsCompaction /\ ~last.dry)
    => \A d \in CompactDays :
          d >= last.days
          => LET again == CompactionPass(last.op, Store, today, d, FALSE)
             IN  /\ LinesOf(again.store.files) = LinesOf(files)
                 /\ ~again.raised => again.ret.bytes = 0

\* a compaction that dropped lines of a file and saved their bytes
C10_Witness ==
    /\ LastIsCompaction
    /\ ~last.dry
    /\ ~last.raised
    /\ last.op = "compact_old_sessions"
    /\ last.ret.count > 0
    /\ last.ret.bytes > 0

\* C15: compaction does not abort on lines that are not well-formed records
\* (not valid JSON, or valid JSON that is not a mapping): the pass returns,
\* and every eligible file with qualifying records holds exactly those.
C15_CompactionToleratesCorruptLines ==
    (LastIsCompaction /\ ~last.dry /\ last.pre.root)
    => /\ ~last.raised
       /\ \A i \in 1..Len(last.pre.files) :
             LET f    == last.pre.files[i]
                 want == SelectSeq(Records(f.lines), ClaimedPreserved)
             IN  (Eligible(f, LastCutoff) /\ want # <<>>)
                 => Stripped(files[i].lines) = want

\* the candidates of the pass that ran last
LastMarked ==
    Range(last.marks.age) \cup Range(last.marks.size) \cup Range(last.marks.count)

\* C16: whatever subset of the candidates cannot be unlinked, a non-dry-run
\* retention pass returns and has deleted every other candidate.
C16_FailedUnlinksDoNotStopThePass ==
    (LastIsRetention /\ ~last.dry /\ last.pre.root)
    => /\ ~last.raised
       /\ last.failed \subseteq LastMarked
       /\ Paths(files) = Paths(last.pre.files) \ (LastMarked \ last.failed)

\* one unlink failed and another candidate was deleted
C16_Witness ==
    /\ LastIsRetention
    /\ ~last.dry
    /\ last.failed # {}
    /\ Gone # {}

\* C17: a non-dry-run retention pass reports as deleted the number of files
\* it removed and as freed bytes the sum of their sizes, leaving out the
\* candidates whose unlink failed.
C17_ResultExcludesFailedUnlinks ==
    (LastIsRetention /\ ~last.dry /\ last.pre.root)
    => LET sum == TotalSize(SelectSeq(last.pre.files,
                                      LAMBDA f : PathOf(f) \in Gone))
       IN  /\ last.ret.count = Cardinality(Gone)
           /\ last.op = "cleanup_logs" => last.ret.bytes = sum
           /\ last.op = "cleanup" => last.ret.bytes = RoundKbTenths(sum)

\* the file is outside a compaction with this cutoff: dated at or after it,
\* marked as compacted, or without a record to preserve
OutsideCompaction(f, cutoff_str) ==
    \/ ~LexLess(f.dir, cutoff_str)
    \/ EndsWithCompacted(f.stem)
    \/ SelectSeq(Records(f.lines), ClaimedPreserved) = <<>>

\* C19: a non-dry-run compaction leaves as they were the files dated at or
\* after the cutoff, those whose stem ends in the marker and those with
\* nothing to preserve, counts none of them, and deletes or renames no file.
C19_CompactionFrame ==
    (LastIsCompaction /\ ~last.dry)
    => /\ root = last.pre.root
       /\ dirs = last.pre.dirs
       /\ Len(files) = Len(last.pre.files)
       /\ \A i \in 1..Len(files) :
             /\ PathOf(files[i]) = PathOf(last.pre.files[i])
             /\ OutsideCompaction(last.pre.files[i], LastCutoff)
                => files[i] = last.pre.files[i]
       /\ ~last.raised
          => last.ret.count
             = Cardinality({i \in 1..Len(files) :
                              ~OutsideCompaction(last.pre.files[i], LastCutoff)})

\* a compaction rewrote a file and passed over a marked file with records to
\* drop
C19_Witness ==
    /\ LastIsCompaction
    /\ ~last.dry
    /\ ~last.raised
    /\ \E i \in 1..Len(files) : files[i] # last.pre.files[i]
    /\ \E i \in 1..Len(files) :
          /\ EndsWithCompacted(files[i].stem)
          /\ LexLess(files[i].dir, LastCutoff)
          /\ PreservedLines(last.op, files[i].lines) # files[i].lines

\* the paths of the files of a sequence that hold at least one byte
NonEmptyPaths(fs) == {PathOf(fs[i]) : i \in {j \in 1..Len(fs) : Size(fs[j]) > 0}}

RECURSIVE NumberOf(_)
\* the number a sequence of decimal digits writes
NumberOf(ds) ==
    IF ds = <<>> THEN 0 ELSE 10 * NumberOf(SubSeq(ds, 1, Len(ds) - 1)) + ds[Len(ds)]

\* C11: within one session file, no two records written with generated
\* correlation ids carry the same sequence number, however many loggers
\* were constructed for the session.
C11_SequenceNumbersUniquePerFile ==
    \A k \in 1..Len(files) :
       LET lines == files[k].lines
       IN  \A i, j \in 1..Len(lines) :
              (i < j /\ lines[i].auto /\ lines[j].auto)
              => NumberOf(lines[i].cid.digits) # NumberOf(lines[j].cid.digits)

\* the calls made by the w-th logger, in order
CallsOf(w) == SelectSeq(calls, LAMBDA c : c.logger = w)

\* the caller passed a correlation id that is not empty
Supplied(cid) == ~cid.none /\ cid.digits # <<>>

\* the lines of the session file of a logger (none when it does not exist)
FileLines(lg) ==
    IF LogFile(lg) \in Paths(files) THEN FileAt(files, LogFile(lg)).lines
    ELSE <<>>

\* C12: the ids one logger generates are corr_<its session>_<n> with n = 1,
\* 2, 3, ... in the order of its calls that pass no id (so they are pairwise
\* distinct and strictly increasing); a call that passes an id that is not
\* empty returns that id, writes it in its record, and draws no number.
C12_GeneratedIdsCountFromOne ==
    \A w \in 1..Len(loggers) :
       LET mine == CallsOf(w)
           gen  == SelectSeq(mine, LAMBDA c : ~Supplied(c.cid))
           own  == SelectSeq(mine, LAMBDA c : Supplied(c.cid))
       IN  /\ \A i \in 1..Len(gen) :
                /\ gen[i].returned.sid = loggers[w].session_id
                /\ NumberOf(gen[i].returned.digits) = i
                /\ Len(gen[i].returned.digits) >= 3
                /\ gen[i].entry.cid = gen[i].returned
                /\ \A j \in 1..Len(gen) :
                      i # j => gen[i].returned # gen[j].returned
           /\ \A i \in 1..Len(own) :
                /\ own[i].returned = own[i].cid
                /\ own[i].entry.cid = own[i].cid
                /\ \E n \in 1..Len(FileLines(loggers[w])) :
                      FileLines(loggers[w])[n] = own[i].entry
           /\ loggers[w].seq = Len(gen)

\* a logger generated an id, was passed one, and generated the next
C12_Witness ==
    \E w \in 1..Len(loggers) :
       LET mine == CallsOf(w)
       IN  /\ Len(mine) = 3
           /\ ~Supplied(mine[1].cid)
           /\ Supplied(mine[2].cid)
           /\ mine[3].cid = EmptyCid
           /\ NumberOf(mine[3].returned.digits) = 2

\* C13: a session file holds, line by line and in the order of the calls,
\* the entries of the calls of log() made on it; so after N calls by the
\* one logger of a session it has exactly N lines, the i-th that of the
\* i-th call.
C13_FileIsTheCallsInOrder ==
    /\ \A k \in 1..Len(files) :
          LET on == SelectSeq(calls,
                      LAMBDA c : LogFile(loggers[c.logger]) = PathOf(files[k]))
          IN  files[k].lines = [i \in 1..Len(on) |-> on[i].entry]
    /\ \A w \in 1..Len(loggers) :
          (\A v \in 1..Len(loggers) :
              LogFile(loggers[v]) = LogFile(loggers[w]) => v = w)
          => /\ Len(FileLines(loggers[w])) = Len(CallsOf(w))
             /\ \A i \in 1..Len(CallsOf(w)) :
                   FileLines(loggers[w])[i] = CallsOf(w)[i].entry

\* one logger alone on its session made three different calls
C13_Witness ==
    \E w \in 1..Len(loggers) :
       /\ Len(loggers) = 2
       /\ \A v \in 1..Len(loggers) :
             LogFile(loggers[v]) = LogFile(loggers[w]) => v = w
       /\ Len(CallsOf(w)) = 3
       /\ CallsOf(w)[1].entry # CallsOf(w)[2].entry
       /\ CallsOf(w)[2].entry # CallsOf(w)[3].entry

C20_OnlyTheWriterCreatesFiles ==
    [][calls' = calls => Paths(files') \subseteq Paths(files)]_vars

\* the other retention function
OtherRetention(fn) == IF fn = "cleanup_logs" THEN "cleanup" ELSE "cleanup_logs"

\* C25: cleanup_logs and cleanup, run on the same store with the same
\* policy and dry_run, mark the same files and report the same deleted
\* count and the same freed bytes (compared in tenths of a KB, the unit of
\* cleanup).
C25_LibraryAndToolAgree ==
    (LastIsRetention /\ last.pre.root /\ last.failed = {})
    => LET other == RetentionPass(OtherRetention(last.op), last.pre, cfg,
                                  today, last.dry, {})
           Kb(fn, bytes) == IF fn = "cleanup_logs" THEN RoundKbTenths(bytes)
                            ELSE bytes
       IN  /\ Range(other.marks.age) \cup Range(other.marks.size)
                \cup Range(other.marks.count) = LastMarked
           /\ other.ret.count = last.ret.count
           /\ Kb(OtherRetention(last.op), other.ret.bytes)
              = Kb(last.op, last.ret.bytes)

\* the modification time of the file of the store the pass found at a path
MtimeBefore(p) == FileAt(last.pre.files, p).mtime

C27_RetentionIdempotent ==
    DeletedAll
    => LET again == RetentionPass(last.op, Store, cfg, today, FALSE, {})
       IN  /\ ToDelete(Marks(last.op, files, cfg, today)) = <<>>
           /\ again.store.files = files
           /\ again.ret.count = 0
           /\ again.ret.bytes = 0

\* a pass deleted one file by size or count and left another
C27_Witness ==
    /\ DeletedAll
    /\ last.marks.age = <<>>
    /\ Gone # {}
    /\ files # <<>>

\* C28: when no compaction pass is under way, every record that the
\* preservation predicate keeps and that a completed call of log() appended
\* is in the session file of its logger, as long as that file exists.
C28_NoAuditRecordLost ==
    running.compaction.phase = "idle"
    => \A n \in 1..Len(calls) :
          LET c == calls[n]
          IN  (/\ ~c.raised
               /\ Preserved(c.entry)
               /\ LogFile(loggers[c.logger]) \in Paths(files))
              => \E i \in 1..Len(FileLines(loggers[c.logger])) :
                    FileLines(loggers[c.logger])[i] = c.entry

\* C29: no call of log() by a constructed logger fails, whatever retention
\* passes ran since the logger was constructed.
C29_AppendNeverFails ==
    \A n \in 1..Len(calls) : ~calls[n].raised

LastIsStats == last.op \in {"get_log_stats", "get_stats"}

\* C23: without a store root, stats returns zero files, zero bytes and no
\* oldest or newest date, and retention and compaction return zero counts
\* and zero bytes, and none of them raises or creates anything; on a root
\* that holds no session file, retention and compaction change nothing and
\* return zero counts.
C23_NotFoundIsNoOp ==
    /\ (last.op # "none" /\ ~last.pre.root)
       => /\ ~last.raised
          /\ Store = last.pre
          /\ LastIsStats
             => /\ last.ret.files = 0
                /\ last.ret.bytes = 0
                /\ last.ret.oldest = NoDate
                /\ last.ret.newest = NoDate
          /\ (LastIsRetention \/ LastIsCompaction)
             => last.ret.count = 0 /\ last.ret.bytes = 0
    /\ (/\ LastIsRetention \/ LastIsCompaction
        /\ last.pre.root
        /\ last.pre.files = <<>>)
       => /\ ~last.raised
          /\ Store = last.pre
          /\ last.ret.count = 0
          /\ last.ret.bytes = 0

\* the names of the directories of the store that hold a file and begin
\* with "20"
DatedNames(st) ==
    {d \in {st.files[i].dir : i \in 1..Len(st.files)} :
        Len(d) >= 2 /\ SubSeq(d, 1, 2) = <<2, 0>>}

\* C24: stats reports the number of session files under the root and the
\* sum of their sizes (get_stats in tenths of a KB); dates lists, ascending
\* and without duplicates, the names of the directories that hold a file
\* and pass the prefix filter; the oldest and newest dates are its first and
\* last element, or absent when it is empty; files in other directories
\* are counted in files and bytes.
C24_StoreIndex ==
    (LastIsStats /\ last.pre.root)
    => LET r == last.ret
       IN  /\ r.files = Len(last.pre.files)
           /\ last.op = "get_log_stats" => r.bytes = TotalSize(last.pre.files)
           /\ last.op = "get_stats"
              => r.bytes = RoundKbTenths(TotalSize(last.pre.files))
           /\ Range(r.dates) = DatedNames(last.pre)
           /\ Len(r.dates) = Cardinality(DatedNames(last.pre))
           /\ \A i, j \in 1..Len(r.dates) :
                 i < j => LexLess(r.dates[i], r.dates[j])
           /\ r.dates # <<>>
              => r.oldest = r.dates[1] /\ r.newest = r.dates[Len(r.dates)]
           /\ r.dates = <<>> => r.oldest = NoDate /\ r.newest = NoDate

\* stats of a store with a file on a date and a file in the undated
\* directory: two files, one date
C24_Witness ==
    /\ LastIsStats
    /\ last.ret.files = 2
    /\ Len(last.ret.dates) = 1
    /\ last.ret.bytes > 0
    /\ \E i \in 1..Len(last.pre.files) : last.pre.files[i].dir = UndatedDir

\* the store a pass of cleanup_logs and then the construction of a writer
\* leave, from store st
CleanedAndOpened(st) ==
    LET r == RetentionPass("cleanup_logs", st, cfg, last.now, FALSE,
                           last.failed).store
    IN  [root |-> TRUE, dirs |-> r.dirs \cup {DateStr(last.now)},
         files |-> r.files]

\* C21: a query without session id and date, made by a logger of either
\* scope that has appended a record, reads the session file the logger
\* appends to, in the store of the logger's scope, whatever the date of the
\* call.
C21_QueryReadsWritersFile ==
    (queried.outcome # "none" /\ ~queried.explicit /\ queried.appended)
    => /\ queried.target = LogFile(loggers[queried.logger])
       /\ queried.scope = loggers[queried.logger].scope

\* C22: query returns no entries and no error when the target file does not
\* exist; when the target file exists and the filter tool is absent or
\* fails, query raises and returns nothing.
C22_MissingFileEmptyElseToolErrorRaised ==
    queried.outcome # "none"
    => /\ ~queried.existed
          => queried.outcome = "returned" /\ queried.entries = <<>>
       /\ (queried.existed /\ queried.tool \in {"absent", "fails"})
          => queried.outcome = "raised"

\* a query of an existing session file raised for the missing tool
C22_Witness ==
    /\ queried.existed
    /\ queried.tool = "absent"
    /\ queried.outcome = "raised"
    /\ queried.error = "jq not found"

\* C22 as stated: no entries and no error when the target file does not
\* exist, and an error whenever the tool is absent or fails
C22_ToolErrorAlwaysRaised ==
    queried.outcome # "none"
    => /\ ~queried.existed
          => queried.outcome = "returned" /\ queried.entries = <<>>
       /\ queried.tool \in {"absent", "fails"} => queried.outcome = "raised"

\* C30: the retention pass of get_logger with auto_cleanup runs on the
\* store of the scope the returned logger writes to, and the store of the
\* other scope is as it was.
C30_CleanupInWritersScope ==
    (last.op = "get_logger" /\ last.auto_cleanup)
    => IF last.scope = "global"
       THEN /\ last.post = CleanedAndOpened(last.pre)
            /\ last.project_post = last.project_pre
       ELSE /\ last.project_post.files
                  = CleanedAndOpened(last.project_pre).files
            /\ last.post = last.pre

====
